---- MODULE Spec2Model ----
(***************************************************************************)
(* VirtualTryOnAPI.try_on (src/main.py): one call of the client, from the  *)
(* existence checks of the two input images to the returned list of saved  *)
(* paths.  The call is a straight line of effects on the outside world:    *)
(* os.path.exists, open/read, one authed.post, response.json, os.makedirs  *)
(* and one Image.open/img.save per prediction.  Each effect is one action; *)
(* the arguments of the call, the state of the filesystem and the answer   *)
(* of the server are drawn from small sets.                                *)
(*                                                                         *)
(* Strings that the code takes apart or puts together (paths, file names)  *)
(* are sequences of tokens: "/" and "." are the separators, every other    *)
(* token is a run of characters holding neither.  An Optional[int] is <<>> *)
(* (None) or <<n>>.                                                        *)
(***************************************************************************)
EXTENDS Integers, Sequences, FiniteSets, TLC

VARIABLES
    pc,              \* position in try_on
    args,            \* the arguments of the call
    env,             \* the world at the call: input files, output directory
    checked,         \* paths handed to os.path.exists, in order
    reads,           \* input files opened and read, in order
    person_base64,   \* Optional: the encoded person image
    product_base64,  \* Optional: the encoded product image
    request_body,    \* Optional: the JSON document built for the POST
    posts,           \* the bodies handed to authed.post, in order
    response,        \* Optional: the HTTP response
    result,          \* Optional: response.json()
    dirExists,       \* output_dir exists on disk
    disk,            \* files this call has created under output_dir
    saved_paths,     \* the list built by the loop
    i,               \* loop index of enumerate
    decoded,         \* indices whose bytes were base64-decoded and opened
    raised,          \* Optional: the exception that left try_on
    returned         \* Optional: the value try_on returned

vars == <<pc, args, env, checked, reads, person_base64, product_base64,
          request_body, posts, response, result, dirExists, disk,
          saved_paths, i, decoded, raised, returned>>

None == <<>>
Some(x) == <<x>>

(* ------------------------------ bounds -------------------------------- *)

\* longest "predictions" list a response carries
MaxPred == 2

(* ------------------------------ inputs -------------------------------- *)

PersonPaths == { <<".", "/", "images", "/", "person", ".", "png">>,
                 <<"a", ".", "tar", ".", "gz">> }
ProductPaths == { <<".", "/", "images", "/", "dress", ".", "png">>,
                  <<"shop", "/", ".", "hidden">> }
OutputDirs == { <<".", "/", "results">> }
SampleCounts == {0, 1}
BaseSteps == {0, 32}
Seeds == {None, Some(0), Some(42)}
OutputMimeTypes == {"image/png", "image/jpeg"}
CompressionQualities == {None, Some(0), Some(85), Some(150)}

\* the parameters of try_on, defaults of lines 48-50 kept
Args ==
    [person_image_path : PersonPaths,
     product_image_path : ProductPaths,
     output_dir : OutputDirs,
     sample_count : SampleCounts,
     base_steps : BaseSteps,
     add_watermark : {FALSE},
     person_generation : {"allow_all"},
     safety_setting : {"block_only_high"},
     seed : Seeds,
     output_mime_type : OutputMimeTypes,
     compression_quality : CompressionQualities]

\* a path is absent, present but not readable (a directory, no permission),
\* or a readable file
FileStates == {"missing", "unreadable", "ok"}

Envs == [person : FileStates, product : FileStates, outdir : BOOLEAN]

\* one entry of the "predictions" list: the payload either decodes to an
\* image or does not; mimeType may be absent
Payloads == {"image", "garbage"}
PredictionMimeTypes == {"image/png", "image/jpeg"}
Predictions ==
    [bytesBase64Encoded : Payloads]
    \cup [bytesBase64Encoded : Payloads, mimeType : PredictionMimeTypes]

PredictionLists == UNION { [1..n -> Predictions] : n \in 0..MaxPred }

\* response bodies: text that is no JSON, a JSON object without
\* "predictions", a JSON object with a predictions list
NotJsonText == [valid |-> FALSE, raw |-> [garbage |-> "Forbidden"]]
ErrorText == [valid |-> TRUE, raw |-> [error |-> "denied"]]
PredictionTexts ==
    { [valid |-> TRUE, raw |-> [predictions |-> s]] : s \in PredictionLists }

StatusCodes == {200, 201, 403}

Responses ==
    [status_code : StatusCodes \ {200}, text : {NotJsonText, ErrorText}]
    \cup [status_code : {200},
          text : {NotJsonText, ErrorText} \cup PredictionTexts]

(* --------------------------- pure helpers ----------------------------- *)

\* os.path.exists(path) for the two input paths
Exists(path) ==
    IF path = args.person_image_path THEN env.person # "missing"
    ELSE env.product # "missing"

FileState(path) ==
    IF path = args.person_image_path THEN env.person ELSE env.product

\* f.read() and base64.b64encode(...).decode('utf-8')
FileBytes(path) == <<"bytes", path>>
B64Encode(bytes) == <<"b64", bytes>>
encode_image(path) == B64Encode(FileBytes(path))

\* index of the last occurrence of tok in s, 0 when there is none
RECURSIVE RFind(_, _)
RFind(s, tok) ==
    IF s = <<>> THEN 0
    ELSE IF s[Len(s)] = tok THEN Len(s)
    ELSE RFind(SubSeq(s, 1, Len(s) - 1), tok)

\* index of the first occurrence of tok in s, 0 when there is none
RECURSIVE Find(_, _)
Find(s, tok) ==
    IF s = <<>> THEN 0
    ELSE IF s[1] = tok THEN 1
    ELSE LET k == Find(Tail(s), tok) IN IF k = 0 THEN 0 ELSE k + 1

\* PurePath(s).parts for a relative path: the components between the
\* slashes, empty components and "." components dropped
RECURSIVE Parts(_)
Parts(s) ==
    IF s = <<>> THEN <<>>
    ELSE LET k == Find(s, "/")
             head == IF k = 0 THEN s ELSE SubSeq(s, 1, k - 1)
             rest == IF k = 0 THEN <<>> ELSE SubSeq(s, k + 1, Len(s))
         IN  (IF head \in {<<>>, <<".">>} THEN <<>> ELSE <<head>>)
             \o Parts(rest)

\* str(PurePath): the parts joined by "/"
RECURSIVE PathStr(_)
PathStr(parts) ==
    IF parts = <<>> THEN <<".">>
    ELSE IF Len(parts) = 1 THEN parts[1]
    ELSE parts[1] \o <<"/">> \o PathStr(Tail(parts))

\* PurePath.name: the last part of the path
Name(path) ==
    LET parts == Parts(path)
    IN  IF parts = <<>> THEN <<>> ELSE parts[Len(parts)]

\* PurePath.stem: the name without its last suffix; a name that starts or
\* ends with its only dot has no suffix
Stem(path) ==
    LET name == Name(path)
        k == RFind(name, ".")
    IN  IF 1 < k /\ k < Len(name) THEN SubSeq(name, 1, k - 1) ELSE name

\* str(n) for n >= 0, one token per digit
DigitTokens == <<"0", "1", "2", "3", "4", "5", "6", "7", "8", "9">>
RECURSIVE Str(_)
Str(n) ==
    IF n < 10 THEN <<DigitTokens[n + 1]>>
    ELSE Str(n \div 10) \o <<DigitTokens[(n % 10) + 1]>>

\* dict.get(key) on a JSON object
Get(obj, key) == IF key \in DOMAIN obj THEN Some(obj[key]) ELSE None

\* a variant of Ext that tests for JPEG and falls back to ".png"
ExtDefaultPng(prediction) ==
    IF Get(prediction, "mimeType") = Some("image/jpeg") THEN ".jpg" ELSE ".png"

\* line 142
Ext(prediction) ==
    IF Get(prediction, "mimeType") = Some("image/png") THEN ".png" ELSE ".jpg"

\* a variant of FilePath that leaves the index out of the file name
FilePathNoIndex(a, n, ext) ==
    LET timestamp == Stem(a.person_image_path) \o <<"_">>
                     \o Stem(a.product_image_path)
        filename == <<"vton_">> \o timestamp \o <<ext>>
    IN  PathStr(Append(Parts(a.output_dir), filename))

\* lines 143-144 and 148: str(Path(output_dir) / f"vton_{timestamp}_{i}{ext}")
FilePath(a, n, ext) ==
    LET timestamp == Stem(a.person_image_path) \o <<"_">>
                     \o Stem(a.product_image_path)
        filename == <<"vton_">> \o timestamp \o <<"_">> \o Str(n) \o <<ext>>
    IN  PathStr(Append(Parts(a.output_dir), filename))

\* a variant of IncludeSeed that tests the truthiness of seed
IncludeSeedTruthy(seed) == seed # None /\ seed[1] # 0

\* line 115
IncludeSeed(seed) == seed # None

\* line 117: truthiness of compression_quality and the mime test
IncludeQuality(compression_quality, output_mime_type) ==
    /\ compression_quality # None
    /\ compression_quality[1] # 0
    /\ output_mime_type = "image/jpeg"

\* obj with obj[key] = value set
With(obj, key, value) ==
    [k \in DOMAIN obj \cup {key} |-> IF k = key THEN value ELSE obj[k]]

\* lines 93-118
RequestBody(a, person64, product64) ==
    LET outputOptions0 == [mimeType |-> a.output_mime_type]
        outputOptions ==
            IF IncludeQuality(a.compression_quality, a.output_mime_type)
            THEN With(outputOptions0, "compressionQuality",
                      a.compression_quality[1])
            ELSE outputOptions0
        parameters0 ==
            [sampleCount |-> a.sample_count,
             baseSteps |-> a.base_steps,
             addWatermark |-> a.add_watermark,
             personGeneration |-> a.person_generation,
             safetySetting |-> a.safety_setting,
             outputOptions |-> outputOptions]
        parameters ==
            IF IncludeSeed(a.seed)
            THEN With(parameters0, "seed", a.seed[1])
            ELSE parameters0
    IN  [instances |->
            << [personImage |-> [image |-> [bytesBase64Encoded |-> person64]],
                productImages |->
                    << [image |-> [bytesBase64Encoded |-> product64]] >>] >>,
         parameters |-> parameters]

\* result.get("predictions", [])
PredictionsOf(obj) ==
    IF "predictions" \in DOMAIN obj THEN obj.predictions ELSE <<>>

(* ------------------------------ state --------------------------------- *)

Init ==
    /\ pc = "check_person"
    /\ args \in Args
    /\ env \in Envs
    /\ checked = <<>>
    /\ reads = <<>>
    /\ person_base64 = None
    /\ product_base64 = None
    /\ request_body = None
    /\ posts = <<>>
    /\ response = None
    /\ result = None
    /\ dirExists = env.outdir
    /\ disk = {}
    /\ saved_paths = <<>>
    /\ i = 0
    /\ decoded = {}
    /\ raised = None
    /\ returned = None

\* an exception leaves try_on: nothing catches it
Raise(exc) ==
    /\ pc' = "raised"
    /\ raised' = Some(exc)

\* lines 79-80
CheckPerson ==
    /\ pc = "check_person"
    /\ checked' = Append(checked, args.person_image_path)
    /\ IF ~Exists(args.person_image_path)
       THEN Raise([type |-> "FileNotFoundError",
                   path |-> args.person_image_path])
       ELSE pc' = "check_product" /\ UNCHANGED raised
    /\ UNCHANGED <<args, env, reads, person_base64, product_base64,
                   request_body, posts, response, result, dirExists, disk,
                   saved_paths, i, decoded, returned>>

\* a variant of CheckProduct that does not test the product path
CheckProductSkipped ==
    /\ pc = "check_product"
    /\ pc' = "encode_person"
    /\ UNCHANGED <<args, env, checked, reads, person_base64, product_base64,
                   request_body, posts, response, result, dirExists, disk,
                   saved_paths, i, decoded, raised, returned>>

\* lines 81-82
CheckProduct ==
    /\ pc = "check_product"
    /\ checked' = Append(checked, args.product_image_path)
    /\ IF ~Exists(args.product_image_path)
       THEN Raise([type |-> "FileNotFoundError",
                   path |-> args.product_image_path])
       ELSE pc' = "encode_person" /\ UNCHANGED raised
    /\ UNCHANGED <<args, env, reads, person_base64, product_base64,
                   request_body, posts, response, result, dirExists, disk,
                   saved_paths, i, decoded, returned>>

\* open(path, "rb") of lines 86-87: the exception it raises, None when the
\* file opens
OpenError(path) ==
    CASE FileState(path) = "missing" ->
            Some([type |-> "FileNotFoundError", path |-> path])
      [] FileState(path) = "unreadable" ->
            Some([type |-> "OSError", path |-> path])
      [] OTHER -> None

\* line 89
EncodePerson ==
    /\ pc = "encode_person"
    /\ LET err == OpenError(args.person_image_path)
       IN  IF err # None
           THEN /\ Raise(err[1])
                /\ UNCHANGED <<reads, person_base64>>
           ELSE /\ reads' = Append(reads, args.person_image_path)
                /\ person_base64' = Some(encode_image(args.person_image_path))
                /\ pc' = "encode_product"
                /\ UNCHANGED raised
    /\ UNCHANGED <<args, env, checked, product_base64, request_body, posts,
                   response, result, dirExists, disk, saved_paths, i,
                   decoded, returned>>

\* line 90
EncodeProduct ==
    /\ pc = "encode_product"
    /\ LET err == OpenError(args.product_image_path)
       IN  IF err # None
           THEN /\ Raise(err[1])
                /\ UNCHANGED <<reads, product_base64>>
           ELSE /\ reads' = Append(reads, args.product_image_path)
                /\ product_base64' =
                       Some(encode_image(args.product_image_path))
                /\ pc' = "build"
                /\ UNCHANGED raised
    /\ UNCHANGED <<args, env, checked, person_base64, request_body, posts,
                   response, result, dirExists, disk, saved_paths, i,
                   decoded, returned>>

\* lines 93-118
BuildRequest ==
    /\ pc = "build"
    /\ request_body' =
           Some(RequestBody(args, person_base64[1], product_base64[1]))
    /\ pc' = "post"
    /\ UNCHANGED <<args, env, checked, reads, person_base64, product_base64,
                   posts, response, result, dirExists, disk, saved_paths, i,
                   decoded, raised, returned>>

\* lines 122-126: the one call of authed.post; the transport answers with
\* a response or raises.  What AuthorizedSession does below that call
\* (attaching the token, refreshing it) is the library's and not modelled.
Post ==
    /\ pc = "post"
    /\ posts' = Append(posts, request_body[1])
    /\ \/ \E r \in Responses :
             /\ response' = Some(r)
             /\ pc' = "check_status"
             /\ UNCHANGED raised
       \/ /\ Raise([type |-> "ConnectionError"])
          /\ UNCHANGED response
    /\ UNCHANGED <<args, env, checked, reads, person_base64, product_base64,
                   request_body, result, dirExists, disk, saved_paths, i,
                   decoded, returned>>

\* the message of line 129
ApiErrorMessage(r) == <<"API error: ", r.status_code, " - ", r.text>>

\* a variant of IsApiError that lets every status below 400 pass
IsApiErrorFrom400(status_code) == status_code >= 400

\* line 128
IsApiError(status_code) == status_code # 200

\* a variant of CheckStatus that posts again after a failed first attempt
CheckStatusRetry ==
    /\ pc = "check_status"
    /\ IF IsApiError(response[1].status_code)
       THEN IF Len(posts) < 2
            THEN pc' = "post" /\ UNCHANGED raised
            ELSE Raise([type |-> "Exception",
                        message |-> ApiErrorMessage(response[1])])
       ELSE pc' = "json" /\ UNCHANGED raised
    /\ UNCHANGED <<args, env, checked, reads, person_base64, product_base64,
                   request_body, posts, response, result, dirExists, disk,
                   saved_paths, i, decoded, returned>>

\* a variant of CheckStatus that creates output_dir before the status test
CheckStatusMakeDirsFirst ==
    /\ pc = "check_status"
    /\ dirExists' = TRUE
    /\ IF IsApiError(response[1].status_code)
       THEN Raise([type |-> "Exception",
                   message |-> ApiErrorMessage(response[1])])
       ELSE pc' = "json" /\ UNCHANGED raised
    /\ UNCHANGED <<args, env, checked, reads, person_base64, product_base64,
                   request_body, posts, response, result, disk,
                   saved_paths, i, decoded, returned>>

\* lines 128-129
CheckStatus ==
    /\ pc = "check_status"
    /\ IF IsApiError(response[1].status_code)
       THEN Raise([type |-> "Exception",
                   message |-> ApiErrorMessage(response[1])])
       ELSE pc' = "json" /\ UNCHANGED raised
    /\ UNCHANGED <<args, env, checked, reads, person_base64, product_base64,
                   request_body, posts, response, result, dirExists, disk,
                   saved_paths, i, decoded, returned>>

\* line 132: response.json()
ParseJson ==
    /\ pc = "json"
    /\ IF response[1].text.valid
       THEN /\ result' = Some(response[1].text.raw)
            /\ pc' = "makedirs"
            /\ UNCHANGED raised
       ELSE /\ Raise([type |-> "JSONDecodeError"])
            /\ UNCHANGED result
    /\ UNCHANGED <<args, env, checked, reads, person_base64, product_base64,
                   request_body, posts, response, dirExists, disk,
                   saved_paths, i, decoded, returned>>

\* lines 133-134: os.makedirs(output_dir, exist_ok=True); a directory that
\* is absent may be impossible to create
MakeDirs ==
    /\ pc = "makedirs"
    /\ \/ /\ dirExists' = TRUE
          /\ saved_paths' = <<>>
          /\ pc' = "loop"
          /\ UNCHANGED raised
       \/ /\ ~dirExists
          /\ Raise([type |-> "OSError", path |-> args.output_dir])
          /\ UNCHANGED <<dirExists, saved_paths>>
    /\ UNCHANGED <<args, env, checked, reads, person_base64, product_base64,
                   request_body, posts, response, result, disk, i, decoded,
                   returned>>

\* a variant of FilesAfterFailedSave that removes the files of the call
FilesAfterCleanup(files, filepath) == {{}}

\* line 147 raising: the files this call has created once img.save has
\* failed; filepath itself may or may not have been created
FilesAfterFailedSave(files, filepath) == {files, files \cup {filepath}}

\* lines 136-149, one iteration: decode, open, name, save, append.  The
\* exceptions of lines 138-139 and 147 are tagged with the index they
\* were raised at.
LoopBody ==
    /\ pc = "loop"
    /\ i < Len(PredictionsOf(result[1]))
    /\ LET prediction == PredictionsOf(result[1])[i + 1]
           filepath == FilePath(args, i, Ext(prediction))
       IN  IF prediction.bytesBase64Encoded # "image"
           THEN \* lines 138-139 raise
                /\ Raise([type |-> "DecodeError", index |-> i])
                /\ UNCHANGED <<disk, saved_paths, i, decoded>>
           ELSE /\ decoded' = decoded \cup {i}
                /\ \/ \* line 147 succeeds
                      /\ disk' = disk \cup {filepath}
                      /\ saved_paths' = Append(saved_paths, filepath)
                      /\ i' = i + 1
                      /\ UNCHANGED <<pc, raised>>
                   \/ \* line 147 raises; the file may have been created
                      /\ Raise([type |-> "SaveError", index |-> i])
                      /\ disk' \in FilesAfterFailedSave(disk, filepath)
                      /\ UNCHANGED <<saved_paths, i>>
    /\ UNCHANGED <<args, env, checked, reads, person_base64, product_base64,
                   request_body, posts, response, result, dirExists,
                   returned>>

\* line 151
Return ==
    /\ pc = "loop"
    /\ i = Len(PredictionsOf(result[1]))
    /\ returned' = Some(saved_paths)
    /\ pc' = "done"
    /\ UNCHANGED <<args, env, checked, reads, person_base64, product_base64,
                   request_body, posts, response, result, dirExists, disk,
                   saved_paths, i, decoded, raised>>

Next ==
    \/ CheckPerson
    \/ CheckProduct
    \/ EncodePerson
    \/ EncodeProduct
    \/ BuildRequest
    \/ Post
    \/ CheckStatus
    \/ ParseJson
    \/ MakeDirs
    \/ LoopBody
    \/ Return

Spec == Init /\ [][Next]_vars

(* ------------------------------ claims -------------------------------- *)

Last(s) == s[Len(s)]

PersonMissing == env.person = "missing"
ProductMissing == env.product = "missing"

\* the path is one of the two inputs and is absent from the filesystem
IsMissingInput(path) ==
    \/ path = args.person_image_path /\ PersonMissing
    \/ path = args.product_image_path /\ ProductMissing

\* C1: when the person path or the product path does not exist, the call
\* never gets past the two existence checks: it issues no POST, reads no
\* input file, returns nothing, and the exception it ends with is a
\* FileNotFoundError naming an input path that is missing.
C1_MissingInputFailsBeforeAnyIO ==
    (PersonMissing \/ ProductMissing) =>
        /\ pc \in {"check_person", "check_product", "raised"}
        /\ posts = <<>>
        /\ reads = <<>>
        /\ returned = None
        /\ pc = "raised" =>
              /\ raised[1].type = "FileNotFoundError"
              /\ IsMissingInput(raised[1].path)

\* the person image is there, the product image is not, and the call has
\* failed naming the product path
C1_Witness ==
    /\ pc = "raised"
    /\ env.person = "ok"
    /\ ProductMissing
    /\ raised = Some([type |-> "FileNotFoundError",
                      path |-> args.product_image_path])

\* the predictions of the response, as the server sent them
SentPredictions == PredictionsOf(response[1].text.raw)

\* the extension the claims expect for a prediction
ExpectedExt(prediction) ==
    IF "mimeType" \in DOMAIN prediction /\ prediction.mimeType = "image/png"
    THEN ".png"
    ELSE ".jpg"

\* C2: when the call returns after a 200 response with k predictions, it
\* returns k paths, the n-th path carries the index of the n-th prediction
\* and ends in ".png" when that prediction reports "image/png" and in ".jpg"
\* for any other or absent mimeType.
C2_PathsAlignedWithPredictions ==
    pc = "done" =>
        /\ response[1].status_code = 200
        /\ returned # None
        /\ Len(returned[1]) = Len(SentPredictions)
        /\ \A n \in 1..Len(SentPredictions) :
              LET path == returned[1][n]
              IN  /\ Last(path) = ExpectedExt(SentPredictions[n])
                  /\ path[Len(path) - 1] = ToString(n - 1)

\* two predictions came back, the first a PNG, the second without mimeType,
\* and both were saved
C2_Witness ==
    /\ pc = "done"
    /\ Len(SentPredictions) = 2
    /\ Len(returned[1]) = 2
    /\ Get(SentPredictions[1], "mimeType") = Some("image/png")
    /\ Get(SentPredictions[2], "mimeType") = None
    /\ Last(returned[1][1]) = ".png"
    /\ Last(returned[1][2]) = ".jpg"

\* C3: once a response with a status other than 200 is in, the call can
\* only raise: the exception carries the status code and the body text of
\* the response unchanged, nothing is returned and no output file has been
\* written.
C3_Non200RaisesApiError ==
    (response # None /\ response[1].status_code # 200) =>
        /\ pc \in {"check_status", "raised"}
        /\ returned = None
        /\ disk = {}
        /\ saved_paths = <<>>
        /\ pc = "raised" =>
              /\ raised[1].type = "Exception"
              /\ raised[1].message[2] = response[1].status_code
              /\ raised[1].message[4] = response[1].text

\* a 403 with the body {"error":"denied"} has been turned into the error
C3_Witness ==
    /\ pc = "raised"
    /\ response # None
    /\ response[1].status_code = 403
    /\ response[1].text = ErrorText
    /\ raised[1].type = "Exception"
    /\ raised[1].message[2] = 403
    /\ raised[1].message[4] = ErrorText

\* C4 (as stated): every request body sent holds compressionQuality in
\* parameters.outputOptions exactly when a compression_quality in 1..100
\* was passed together with "image/jpeg", with the value passed; with
\* "image/png" the key is never there.
C4_QualityOnlyInRangeAndJpeg ==
    \A n \in 1..Len(posts) :
        LET outputOptions == posts[n].parameters.outputOptions
            quality == args.compression_quality
        IN  /\ "compressionQuality" \in DOMAIN outputOptions
               <=> /\ quality # None
                   /\ quality[1] \in 1..100
                   /\ args.output_mime_type = "image/jpeg"
            /\ "compressionQuality" \in DOMAIN outputOptions
               => outputOptions.compressionQuality = quality[1]
            /\ args.output_mime_type = "image/png"
               => "compressionQuality" \notin DOMAIN outputOptions

\* C5: every request body sent holds "seed" in parameters exactly when the
\* seed passed is not None, and then with the value passed, 0 included.
C5_SeedIffProvided ==
    \A n \in 1..Len(posts) :
        LET parameters == posts[n].parameters
        IN  /\ "seed" \in DOMAIN parameters <=> args.seed # None
            /\ "seed" \in DOMAIN parameters => parameters.seed = args.seed[1]

\* a request went out with seed 0 in it
C5_Witness ==
    /\ posts # <<>>
    /\ args.seed = Some(0)
    /\ "seed" \in DOMAIN posts[1].parameters
    /\ posts[1].parameters.seed = 0

\* the file name of a path: what follows its last "/"
BaseName(path) ==
    LET cuts == {k \in 1..Len(path) : path[k] = "/"}
        from == IF cuts = {} THEN 1
                ELSE (CHOOSE k \in cuts : \A m \in cuts : m <= k) + 1
    IN  SubSeq(path, from, Len(path))

\* the directory of a path: what precedes its last "/"
DirName(path) == SubSeq(path, 1, Len(path) - Len(BaseName(path)) - 1)

\* a file name without its extension: a final "." followed by one token is
\* cut off when something precedes it
WithoutExtension(name) ==
    IF Len(name) >= 3 /\ name[Len(name) - 1] = "." /\ Last(name) # "."
    THEN SubSeq(name, 1, Len(name) - 2)
    ELSE name

\* the directory a path names, a leading "./" aside
SameDirectory(d, e) ==
    LET strip(x) == IF Len(x) >= 2 /\ x[1] = "." /\ x[2] = "/"
                    THEN SubSeq(x, 3, Len(x)) ELSE x
    IN  strip(d) = strip(e)

\* vton_{personStem}_{productStem}_{n}{ext}
ExpectedFileName(n, ext) ==
    <<"vton_">> \o WithoutExtension(BaseName(args.person_image_path))
    \o <<"_">> \o WithoutExtension(BaseName(args.product_image_path))
    \o <<"_", ToString(n), ext>>

\* C6: every file the call creates, and every path it collects, lies in
\* output_dir under the name vton_{personStem}_{productStem}_{n}{ext}, n
\* the index of its prediction; the paths collected are pairwise distinct
\* and each of them is a file of its own on disk.
C6_FileNamesAndDistinctPaths ==
    /\ \A f \in disk :
          /\ SameDirectory(DirName(f), args.output_dir)
          /\ \E n \in 0..(Len(SentPredictions) - 1) :
                BaseName(f) = ExpectedFileName(n, ExpectedExt(SentPredictions[n + 1]))
    /\ \A n \in 1..Len(saved_paths) :
          /\ saved_paths[n] \in disk
          /\ BaseName(saved_paths[n])
                = ExpectedFileName(n - 1, ExpectedExt(SentPredictions[n]))
    /\ \A m, n \in 1..Len(saved_paths) :
          m # n => saved_paths[m] # saved_paths[n]
    /\ Cardinality({saved_paths[n] : n \in 1..Len(saved_paths)})
          = Len(saved_paths)
    /\ ( /\ args.person_image_path
                = <<".", "/", "images", "/", "person", ".", "png">>
         /\ args.product_image_path
                = <<".", "/", "images", "/", "dress", ".", "png">>
         /\ saved_paths # <<>>
         /\ Get(SentPredictions[1], "mimeType") = Some("image/png") )
       => BaseName(saved_paths[1])
             = <<"vton_", "person", "_", "dress", "_", "0", ".png">>

\* two predictions of the same type were saved for person.png and dress.png
C6_Witness ==
    /\ pc = "done"
    /\ Len(saved_paths) = 2
    /\ Cardinality(disk) = 2
    /\ ExpectedExt(SentPredictions[1]) = ExpectedExt(SentPredictions[2])
    /\ BaseName(saved_paths[1])
          = <<"vton_", "person", "_", "dress", "_", "0", ".png">>
    /\ BaseName(saved_paths[2])
          = <<"vton_", "person", "_", "dress", "_", "1", ".png">>

\* C7 (as stated): no request body sent holds a sampleCount or a baseSteps
\* that is zero or negative.
C7_CountsPositive ==
    \A n \in 1..Len(posts) :
        /\ posts[n].parameters.sampleCount > 0
        /\ posts[n].parameters.baseSteps > 0

\* the index a file of the call was written for
IndexOfFile(f) == f[Len(f) - 1]

\* C8: when decoding or saving prediction j fails, the call ends with that
\* error: no later prediction has been decoded or saved, the files of the
\* predictions 0..j-1 are on disk, and no list is returned.
C8_FailureAbortsLoopKeepsFiles ==
    (pc = "raised" /\ raised[1].type \in {"DecodeError", "SaveError"}) =>
        LET j == raised[1].index
        IN  /\ \A n \in decoded : n <= j
            /\ \A f \in disk : \E n \in 0..j : IndexOfFile(f) = ToString(n)
            /\ Len(saved_paths) = j
            /\ \A n \in 1..j :
                  /\ saved_paths[n] \in disk
                  /\ IndexOfFile(saved_paths[n]) = ToString(n - 1)
            /\ returned = None

\* the second of two predictions could not be saved: the first file is on
\* disk and the call has raised
C8_Witness ==
    /\ pc = "raised"
    /\ raised = Some([type |-> "SaveError", index |-> 1])
    /\ Len(SentPredictions) = 2
    /\ Len(saved_paths) = 1
    /\ saved_paths[1] \in disk

\* the first of two predictions could not be decoded: the second one was
\* never touched
C8_WitnessDecode ==
    /\ pc = "raised"
    /\ raised = Some([type |-> "DecodeError", index |-> 0])
    /\ Len(SentPredictions) = 2
    /\ decoded = {}
    /\ disk = {}

\* C9: at most one POST is issued in a call; when it is issued both paths
\* have been checked and both files read and encoded into its body, and
\* until it is issued no output directory or file has been created.
C9_SinglePostInOrder ==
    /\ Len(posts) <= 1
    /\ posts # <<>> =>
          /\ checked = <<args.person_image_path, args.product_image_path>>
          /\ reads = <<args.person_image_path, args.product_image_path>>
          /\ env.person = "ok" /\ env.product = "ok"
          /\ person_base64 # None /\ product_base64 # None
          /\ posts[1].instances[1].personImage.image.bytesBase64Encoded
                = person_base64[1]
          /\ posts[1].instances[1].productImages[1].image.bytesBase64Encoded
                = product_base64[1]
    /\ posts = <<>> =>
          /\ disk = {}
          /\ saved_paths = <<>>
          /\ dirExists = env.outdir
          /\ response = None

\* a call that posted once and ended with an API error
C9_Witness ==
    /\ pc = "raised"
    /\ raised[1].type = "Exception"
    /\ Len(posts) = 1
    /\ reads = <<args.person_image_path, args.product_image_path>>

\* the call has ended
Ended == pc \in {"done", "raised"}

\* the error of an input file that exists but cannot be read
IsInputReadError(exc) ==
    /\ exc.type = "OSError"
    /\ exc.path \in {args.person_image_path, args.product_image_path}

\* the error of os.makedirs
IsMakeDirsError(exc) == exc.type = "OSError" /\ exc.path = args.output_dir

FilesystemUnchanged == dirExists = env.outdir /\ disk = {}

C10_WitnessApiError ==
    /\ pc = "raised"
    /\ raised[1].type = "Exception"
    /\ ~env.outdir
    /\ ~dirExists

====
